---- MODULE Spec2Model ----
(***************************************************************************)
(* Battery discharge analyzer: the peak-to-zero cycle detector             *)
(* (process_discharge_data of src/app.py and src/test.py), the start       *)
(* number parsed from a file name (get_start_cycle_from_name) and the      *)
(* batch loop and results dashboard of src/test.py.                        *)
(*                                                                         *)
(* Units.  A voltage is an integer number of hundredths (0.5 is 50, 0.05   *)
(* is 5); a timestamp is an integer number of half minutes (1.0 min is 2,  *)
(* 1.5 min is 3).  Python indices are 0-based and TLA+ sequences 1-based:  *)
(* At(s, i) reads s[i] of the source.                                      *)
(***************************************************************************)
EXTENDS Integers, Sequences, FiniteSets, TLC

VARIABLES
    \* one call of process_discharge_data
    df, pc, times, volts, i, peaks_arr, zeros_arr, looking_for_peak, result_df, error,
    \* history of the call: the index i at which each entry of peaks_arr and of
    \* zeros_arr was appended (the code stores the timestamps only)
    peaks_idx, zeros_idx,
    \* a second call, on a shuffled copy of df
    rerun,
    \* one call of get_start_cycle_from_name
    filename, start_cycle,
    \* the batch run and the dashboard of src/test.py
    uploaded_files, sorted_files, file_idx, temp_results, temp_stats, messages,
    processed_results, summary_stats, dashboard, bpc

detVars == <<df, pc, times, volts, i, peaks_arr, zeros_arr, looking_for_peak,
             result_df, error, peaks_idx, zeros_idx>>
nameVars == <<filename, start_cycle>>
batchVars == <<uploaded_files, sorted_files, file_idx, temp_results, temp_stats,
               messages, processed_results, summary_stats, dashboard, bpc>>

vars == <<detVars, rerun, nameVars, batchVars>>

(* ------------------------------ bounds --------------------------------- *)

\* longest series the detector specification enumerates
MaxLen == 4

\* timestamps (half minutes) and voltages (hundredths) of the enumerated series
Times == {0, 2, 3}
Volts == {0, 5, 50, 51, 90}

(* --------------------------- program constants ------------------------- *)

\* volts > 0.5 qualifies as a peak
PeakThreshold == 50
\* volts <= 0.05 qualifies as a zero-crossing
ZeroThreshold == 5
\* minutes -> seconds
SecondsPerMinute == 60
\* timestamps of the model per minute (representation, see Units)
TicksPerMinute == 2

(* ------------------------------ helpers -------------------------------- *)

At(s, k) == s[k + 1]

Min2(a, b) == IF a <= b THEN a ELSE b

\* Python's `sub in s` on strings, strings being sequences of characters
Contains(s, sub) ==
    \E k \in 0..(Len(s) - Len(sub)) : SubSeq(s, k + 1, k + Len(sub)) = sub

Str_ime == <<"i", "m", "e">>
Str_oltage == <<"o", "l", "t", "a", "g", "e">>
Str_otential == <<"o", "t", "e", "n", "t", "i", "a", "l">>

IsTimeCol(c) == Contains(c, Str_ime)
IsVoltCol(c) == Contains(c, Str_oltage) \/ Contains(c, Str_otential)

\* next((c for c in cols if ...), None): <<c>> for the first match, <<>> for None
RECURSIVE FirstTimeCol(_)
FirstTimeCol(cols) ==
    IF cols = <<>> THEN <<>>
    ELSE IF IsTimeCol(Head(cols)) THEN <<Head(cols)>>
    ELSE FirstTimeCol(Tail(cols))

RECURSIVE FirstVoltCol(_)
FirstVoltCol(cols) ==
    IF cols = <<>> THEN <<>>
    ELSE IF IsVoltCol(Head(cols)) THEN <<Head(cols)>>
    ELSE FirstVoltCol(Tail(cols))

\* `not time_col or not volt_col`
ColumnsUnresolved(cols) == FirstTimeCol(cols) = <<>> \/ FirstVoltCol(cols) = <<>>

(* ------------------------------ inputs --------------------------------- *)

Col_Time == <<"T", "i", "m", "e">>
Col_Voltage == <<"V", "o", "l", "t", "a", "g", "e">>
Col_Potential == <<"P", "o", "t", "e", "n", "t", "i", "a", "l">>
Col_Current == <<"C", "u", "r", "r", "e", "n", "t">>

Sample == [t : Times, v : Volts]

\* the sequences over S of length at most n
SeqsUpTo(S, n) == UNION {[1..k -> S] : k \in 0..n}

\* tables whose time and voltage columns resolve: rows in any order
GoodTables(n) == [columns : {<<Col_Time, Col_Voltage>>}, rows : SeqsUpTo(Sample, n)]

\* tables lacking a time or a voltage column: there is no series to read
BadTables == [columns : {<<Col_Time, Col_Current>>, <<Col_Potential>>, <<>>},
              rows : {<<>>}]

Tables(n) == GoodTables(n) \cup BadTables

(* --------------------- process_discharge_data -------------------------- *)

\* mutant: the rows are used in file order, never sorted
SortedArrangementsUnsorted(rows) == {rows}

\* df.sort_values(by=time_col): pandas' default kind is quicksort, which is not
\* stable, so every arrangement ascending by time is a possible outcome
Remove(s, k) == SubSeq(s, 1, k - 1) \o SubSeq(s, k + 1, Len(s))

RECURSIVE SortedArrangements(_)
SortedArrangements(rows) ==
    IF rows = <<>> THEN {<<>>}
    ELSE LET least == {k \in 1..Len(rows) : \A j \in 1..Len(rows) : rows[k].t <= rows[j].t}
         IN  UNION {{<<rows[k]>> \o rest : rest \in SortedArrangements(Remove(rows, k))}
                    : k \in least}

TimesOf(rows) == [k \in 1..Len(rows) |-> rows[k].t]
VoltsOf(rows) == [k \in 1..Len(rows) |-> rows[k].v]

\* the scan's state before the left-edge check
ScanStart == [peaks_arr |-> <<>>, zeros_arr |-> <<>>, looking_for_peak |-> TRUE]

\* mutant: the first sample is never taken as a peak
LeftEdgeCheckSkipped(st, ts, vs) == st

\* EDGE CHECK: index 0
LeftEdgeCheck(st, ts, vs) ==
    IF Len(vs) > 1 /\ At(vs, 0) > PeakThreshold /\ At(vs, 0) > At(vs, 1)
    THEN [st EXCEPT !.peaks_arr = Append(@, At(ts, 0)), !.looking_for_peak = FALSE]
    ELSE st

\* mutant: a voltage of exactly 0.5 qualifies as a peak
IsPeakInclusive(vs, k) ==
    At(vs, k) > At(vs, k - 1) /\ At(vs, k) > At(vs, k + 1) /\ At(vs, k) >= 50

\* Peak Logic: Mid > Left AND Mid > Right, and above the threshold
IsPeak(vs, k) ==
    At(vs, k) > At(vs, k - 1) /\ At(vs, k) > At(vs, k + 1) /\ At(vs, k) > PeakThreshold

\* mutant: a voltage of exactly 0.05 is no zero-crossing (strict <)
IsZeroStrict(v) == v < ZeroThreshold

\* Zero Logic: voltage <= 0.05
IsZero(v) == v <= ZeroThreshold

\* mutant: the zero test is not gated by the mode
LoopBodyUngated(st, ts, vs, k) ==
    IF st.looking_for_peak /\ At(vs, k) > At(vs, k - 1) /\ At(vs, k) > At(vs, k + 1)
                           /\ At(vs, k) > 50
    THEN [st EXCEPT !.peaks_arr = Append(@, At(ts, k)), !.looking_for_peak = FALSE]
    ELSE IF At(vs, k) <= 5
         THEN [st EXCEPT !.zeros_arr = Append(@, At(ts, k)), !.looking_for_peak = TRUE]
         ELSE st

\* one iteration of the main loop, at index k
LoopBody(st, ts, vs, k) ==
    IF st.looking_for_peak
    THEN IF IsPeak(vs, k)
         THEN [st EXCEPT !.peaks_arr = Append(@, At(ts, k)), !.looking_for_peak = FALSE]
         ELSE st
    ELSE IF IsZero(At(vs, k))
         THEN [st EXCEPT !.zeros_arr = Append(@, At(ts, k)), !.looking_for_peak = TRUE]
         ELSE st

\* mutant: the right-edge check does not look at the mode
RightEdgeCheckUngated(st, ts, vs) ==
    IF Len(vs) > 0 /\ At(vs, Len(vs) - 1) <= ZeroThreshold
    THEN [st EXCEPT !.zeros_arr = Append(@, At(ts, Len(ts) - 1))]
    ELSE st

\* EDGE CHECK: last index
RightEdgeCheck(st, ts, vs) ==
    IF ~st.looking_for_peak /\ IsZero(At(vs, Len(vs) - 1))
    THEN [st EXCEPT !.zeros_arr = Append(@, At(ts, Len(ts) - 1))]
    ELSE st

\* mutant: the duration stays in minutes, the factor 60 is missing
DurationMinutes(start, end) == (end - start) \div TicksPerMinute

\* (end - start) * 60, the timestamps being minutes
DurationSeconds(start, end) == ((end - start) * SecondsPerMinute) \div TicksPerMinute

\* mutant: the last pair is left out (range(min_len - 1))
CyclesDataOffByOne(peaks, zeros) ==
    [k \in 1..(Min2(Len(peaks), Len(zeros)) - 1) |->
        [cycle_number |-> (k - 1) + 1,
         duration_seconds |-> DurationSeconds(peaks[k], zeros[k])]]

\* CALCULATE of src/app.py: cycle k (0-based) is numbered k + 1
CyclesData(peaks, zeros) ==
    [k \in 1..Min2(Len(peaks), Len(zeros)) |->
        [cycle_number |-> (k - 1) + 1,
         duration_seconds |-> DurationSeconds(peaks[k], zeros[k])]]

\* pd.DataFrame(cycles_data): an empty list gives a frame without columns
DataFrame(data, cols) == [columns |-> IF data = <<>> THEN <<>> ELSE cols, rows |-> data]

AppColumns == <<"Cycle Number", "Discharge Time (Seconds)">>

\* the main loop from index k to its end, and the whole scan of a sorted series
RECURSIVE ScanFrom(_, _, _, _)
ScanFrom(st, ts, vs, k) ==
    IF k >= Len(vs) - 1 THEN st ELSE ScanFrom(LoopBody(st, ts, vs, k), ts, vs, k + 1)

Detect(ts, vs) ==
    RightEdgeCheck(ScanFrom(LeftEdgeCheck(ScanStart, ts, vs), ts, vs, 1), ts, vs)

\* the error of src/app.py names the columns that were found
ColumnError(cols) == [kind |-> "columns", found |-> cols]

\* process_discharge_data(df) of src/app.py as one call: the (result, error)
\* pairs it can return; None is <<>>
ProcessOutcomes(table) ==
    IF ColumnsUnresolved(table.columns)
    THEN {[result_df |-> <<>>, error |-> <<ColumnError(table.columns)>>]}
    ELSE {LET st == Detect(TimesOf(sorted), VoltsOf(sorted))
          IN  [result_df |-> <<DataFrame(CyclesData(st.peaks_arr, st.zeros_arr), AppColumns)>>,
               error |-> <<>>]
          : sorted \in SortedArrangements(table.rows)}

(* -------------------- get_start_cycle_from_name ------------------------ *)

Digits == {"0", "1", "2", "3", "4", "5", "6", "7", "8", "9"}

IsDigit(c) == c \in Digits

DigitValue(c) ==
    CASE c = "0" -> 0 [] c = "1" -> 1 [] c = "2" -> 2 [] c = "3" -> 3 [] c = "4" -> 4
      [] c = "5" -> 5 [] c = "6" -> 6 [] c = "7" -> 7 [] c = "8" -> 8 [] c = "9" -> 9

\* the longest prefix of s made of digits (one greedy match of \d+ at the head)
RECURSIVE DigitPrefix(_)
DigitPrefix(s) ==
    IF s = <<>> \/ ~IsDigit(Head(s)) THEN <<>>
    ELSE <<Head(s)>> \o DigitPrefix(Tail(s))

\* re.findall(r'\d+', s): the maximal digit runs, left to right
RECURSIVE FindAllNumbers(_)
FindAllNumbers(s) ==
    IF s = <<>> THEN <<>>
    ELSE IF IsDigit(Head(s))
         THEN LET run == DigitPrefix(s)
              IN  <<run>> \o FindAllNumbers(SubSeq(s, Len(run) + 1, Len(s)))
         ELSE FindAllNumbers(Tail(s))

\* int(text) of a run of decimal digits
RECURSIVE ParseInt(_)
ParseInt(run) ==
    IF run = <<>> THEN 0
    ELSE ParseInt(SubSeq(run, 1, Len(run) - 1)) * 10 + DigitValue(run[Len(run)])

\* mutant: the last number of the name is taken (numbers[-1])
get_start_cycle_last_number(name) ==
    LET numbers == FindAllNumbers(name)
    IN  IF numbers # <<>> THEN ParseInt(numbers[Len(numbers)]) ELSE 1

get_start_cycle_from_name(name) ==
    LET numbers == FindAllNumbers(name)
    IN  IF numbers # <<>> THEN ParseInt(At(numbers, 0)) ELSE 1

(* ------------- process_discharge_data of src/test.py ------------------- *)

TestColumns == <<"Source_File", "Cycle Number", "Discharge Time (Seconds)">>

\* start_num = forced_start_cycle if forced_start_cycle is not None else 1
StartNum(forced_start_cycle) ==
    IF forced_start_cycle # <<>> THEN forced_start_cycle[1] ELSE 1

\* mutant: the forced start is ignored, every file is numbered from 1
CyclesDataNamedFromOne(peaks, zeros, fname, forced_start_cycle) ==
    [k \in 1..Min2(Len(peaks), Len(zeros)) |->
        [source_file |-> fname,
         cycle_number |-> 1 + (k - 1),
         duration_seconds |-> DurationSeconds(peaks[k], zeros[k])]]

\* mutant: the numbering is off by one (start_num + k + 1)
CyclesDataNamedOffByOne(peaks, zeros, fname, forced_start_cycle) ==
    [k \in 1..Min2(Len(peaks), Len(zeros)) |->
        [source_file |-> fname,
         cycle_number |-> StartNum(forced_start_cycle) + k,
         duration_seconds |-> DurationSeconds(peaks[k], zeros[k])]]

\* cycle k (0-based) is numbered start_num + k and carries the file name
CyclesDataNamed(peaks, zeros, fname, forced_start_cycle) ==
    [k \in 1..Min2(Len(peaks), Len(zeros)) |->
        [source_file |-> fname,
         cycle_number |-> StartNum(forced_start_cycle) + (k - 1),
         duration_seconds |-> DurationSeconds(peaks[k], zeros[k])]]

\* the (result, error) pairs process_discharge_data(df, filename, forced) can return
ProcessNamedOutcomes(table, fname, forced_start_cycle) ==
    IF ColumnsUnresolved(table.columns)
    THEN {[result_df |-> <<>>, error |-> <<[kind |-> "columns", file |-> fname]>>]}
    ELSE {LET st == Detect(TimesOf(sorted), VoltsOf(sorted))
          IN  [result_df |-> <<DataFrame(CyclesDataNamed(st.peaks_arr, st.zeros_arr, fname,
                                                        forced_start_cycle), TestColumns)>>,
               error |-> <<>>]
          : sorted \in SortedArrangements(table.rows)}

(* ------------------- batch loop and dashboard (src/test.py) ------------ *)

RECURSIVE SumSeq(_)
SumSeq(s) == IF s = <<>> THEN 0 ELSE Head(s) + SumSeq(Tail(s))

CycleNumbers(rows) == [k \in 1..Len(rows) |-> rows[k].cycle_number]
Durations(rows) == [k \in 1..Len(rows) |-> rows[k].duration_seconds]

SeqMin(s) == CHOOSE x \in {s[k] : k \in 1..Len(s)} : \A j \in 1..Len(s) : x <= s[j]
SeqMax(s) == CHOOSE x \in {s[k] : k \in 1..Len(s)} : \A j \in 1..Len(s) : x >= s[j]

\* Series.mean(): the sum over the count, kept as an exact fraction; no rows gives
\* NaN (n = 0).  The rounding to two decimals for display is not represented.
Mean(rows) == [sum |-> SumSeq(Durations(rows)), n |-> Len(rows)]

\* frame[c] raises KeyError unless c is a column of the frame
HasColumn(frame, c) == \E k \in 1..Len(frame.columns) : frame.columns[k] = c

\* sorted(uploaded_files, key=...): Python's sort is stable
RECURSIVE InsertByKey(_, _)
InsertByKey(file, sorted) ==
    IF sorted = <<>> THEN <<file>>
    ELSE IF get_start_cycle_from_name(file.name) < get_start_cycle_from_name(Head(sorted).name)
         THEN <<file>> \o sorted
         ELSE <<Head(sorted)>> \o InsertByKey(file, Tail(sorted))

RECURSIVE SortedFiles(_)
SortedFiles(files) ==
    IF files = <<>> THEN <<>>
    ELSE InsertByKey(files[Len(files)], SortedFiles(SubSeq(files, 1, Len(files) - 1)))

Message(kind, fname) == [kind |-> kind, file |-> fname]

\* mutant: the `if error:` test is missing, a file whose columns do not resolve
\* is stored like any other (its frame is None)
IterationNoErrorCheck(file, out, acc) ==
    LET announced == [acc EXCEPT !.messages = Append(@, Message("analyzing", file.name))]
    IN  IF ~file.readable
        THEN [announced EXCEPT !.messages = Append(@, Message("failed", file.name))]
        ELSE LET frame == IF out.result_df # <<>> THEN out.result_df[1]
                          ELSE [columns |-> <<>>, rows |-> <<>>]
                 stored == [announced EXCEPT
                               !.temp_results = Append(@, [filename |-> file.name,
                                                           df |-> frame])]
             IN  IF ~HasColumn(frame, "Cycle Number")
                 THEN [stored EXCEPT !.messages = Append(@, Message("failed", file.name))]
                 ELSE [stored EXCEPT
                          !.temp_stats = Append(@,
                              [filename |-> file.name,
                               cycles_found |-> Len(frame.rows),
                               first_cycle |-> SeqMin(CycleNumbers(frame.rows)),
                               last_cycle |-> SeqMax(CycleNumbers(frame.rows)),
                               avg_time |-> Mean(frame.rows)])]

\* one iteration of the batch loop on `file`; `out` is what process_discharge_data
\* returns for it (not called when the file cannot be read)
Iteration(file, out, acc) ==
    LET announced == [acc EXCEPT !.messages = Append(@, Message("analyzing", file.name))]
    IN  IF ~file.readable
        THEN \* pd.read_csv / pd.read_excel raises; except Exception
             [announced EXCEPT !.messages = Append(@, Message("failed", file.name))]
        ELSE IF out.error # <<>>
        THEN \* st.error(error)
             [announced EXCEPT !.messages = Append(@, out.error[1])]
        ELSE LET frame == out.result_df[1]
                 stored == [announced EXCEPT
                               !.temp_results = Append(@, [filename |-> file.name,
                                                           df |-> frame])]
             IN  IF ~HasColumn(frame, "Cycle Number")
                 THEN \* result_df['Cycle Number'] raises KeyError; except Exception
                      [stored EXCEPT !.messages = Append(@, Message("failed", file.name))]
                 ELSE [stored EXCEPT
                          !.temp_stats = Append(@,
                              [filename |-> file.name,
                               cycles_found |-> Len(frame.rows),
                               first_cycle |-> SeqMin(CycleNumbers(frame.rows)),
                               last_cycle |-> SeqMax(CycleNumbers(frame.rows)),
                               avg_time |-> Mean(frame.rows)])]

\* pd.concat(all_dfs, ignore_index=True)
RECURSIVE Concat(_)
Concat(results) ==
    IF results = <<>> THEN [columns |-> <<>>, rows |-> <<>>]
    ELSE LET rest == Concat(Tail(results))
             first == Head(results).df
         IN  [columns |-> IF first.columns # <<>> THEN first.columns ELSE rest.columns,
              rows |-> first.rows \o rest.rows]

\* the 'Cycle Number' column after sort_values(by="Cycle Number")
RECURSIVE InsertNumber(_, _)
InsertNumber(x, sorted) ==
    IF sorted = <<>> THEN <<x>>
    ELSE IF x < Head(sorted) THEN <<x>> \o sorted
    ELSE <<Head(sorted)>> \o InsertNumber(x, Tail(sorted))

RECURSIVE SortNumbers(_)
SortNumbers(s) == IF s = <<>> THEN <<>> ELSE InsertNumber(Head(s), SortNumbers(Tail(s)))

\* the metrics of the results dashboard, or the exception that ends the script
DashboardOf(results, stats) ==
    LET master_df == Concat(results)
    IN  IF ~HasColumn(master_df, "Cycle Number")
        THEN [status |-> "exception", total_files |-> Len(stats),
              total_cycles |-> SumSeq([k \in 1..Len(stats) |-> stats[k].cycles_found]),
              master_numbers |-> <<>>, global_avg |-> Mean(<<>>)]
        ELSE [status |-> "shown", total_files |-> Len(stats),
              total_cycles |-> SumSeq([k \in 1..Len(stats) |-> stats[k].cycles_found]),
              master_numbers |-> SortNumbers(CycleNumbers(master_df.rows)),
              global_avg |-> Mean(master_df.rows)]

(* ------------------- the detector, one step at a time ------------------ *)

count == Len(volts)

ScanState == [peaks_arr |-> peaks_arr, zeros_arr |-> zeros_arr,
              looking_for_peak |-> looking_for_peak]

DetInit(tables) ==
    /\ df \in tables
    /\ pc = "start"
    /\ times = <<>>
    /\ volts = <<>>
    /\ i = 0
    /\ peaks_arr = <<>>
    /\ zeros_arr = <<>>
    /\ looking_for_peak = TRUE
    /\ result_df = <<>>
    /\ error = <<>>
    /\ peaks_idx = <<>>
    /\ zeros_idx = <<>>
    /\ rerun = <<>>

NameIdle ==
    /\ filename = <<>>
    /\ start_cycle = <<>>

BatchIdle ==
    /\ uploaded_files = <<>>
    /\ sorted_files = <<>>
    /\ file_idx = 0
    /\ temp_results = <<>>
    /\ temp_stats = <<>>
    /\ messages = <<>>
    /\ processed_results = <<>>
    /\ summary_stats = <<>>
    /\ dashboard = <<>>
    /\ bpc = "idle"

DetIdle ==
    /\ df = [columns |-> <<>>, rows |-> <<>>]
    /\ pc = "idle"
    /\ times = <<>>
    /\ volts = <<>>
    /\ i = 0
    /\ peaks_arr = <<>>
    /\ zeros_arr = <<>>
    /\ looking_for_peak = TRUE
    /\ result_df = <<>>
    /\ error = <<>>
    /\ peaks_idx = <<>>
    /\ zeros_idx = <<>>
    /\ rerun = <<>>

Init == DetInit(Tables(MaxLen)) /\ NameIdle /\ BatchIdle

\* the indices behind the timestamps: k is recorded when the step appended one
Recorded(idx, before, after, k) == IF Len(after) > Len(before) THEN Append(idx, k) ELSE idx

\* return None, "Could not detect 'Time' or 'Voltage' columns. Found: ..."
ResolveFail ==
    /\ pc = "start"
    /\ ColumnsUnresolved(df.columns)
    /\ error' = <<ColumnError(df.columns)>>
    /\ pc' = "done"
    /\ UNCHANGED <<df, times, volts, i, peaks_arr, zeros_arr, looking_for_peak, result_df>>
    /\ UNCHANGED <<peaks_idx, zeros_idx>>
    /\ UNCHANGED <<rerun, nameVars, batchVars>>

\* 2. Sort Data (df is rebound to the sorted frame), and the initial scan state
SortData ==
    /\ pc = "start"
    /\ ~ColumnsUnresolved(df.columns)
    /\ \E sorted \in SortedArrangements(df.rows) :
          /\ df' = [df EXCEPT !.rows = sorted]
          /\ times' = TimesOf(sorted)
          /\ volts' = VoltsOf(sorted)
    /\ peaks_arr' = ScanStart.peaks_arr
    /\ zeros_arr' = ScanStart.zeros_arr
    /\ looking_for_peak' = ScanStart.looking_for_peak
    /\ pc' = "left"
    /\ UNCHANGED <<i, result_df, error, peaks_idx, zeros_idx>>
    /\ UNCHANGED <<rerun, nameVars, batchVars>>

LeftEdge ==
    /\ pc = "left"
    /\ LET st == LeftEdgeCheck(ScanState, times, volts)
       IN  /\ peaks_arr' = st.peaks_arr
           /\ zeros_arr' = st.zeros_arr
           /\ looking_for_peak' = st.looking_for_peak
           /\ peaks_idx' = Recorded(peaks_idx, peaks_arr, st.peaks_arr, 0)
           /\ zeros_idx' = Recorded(zeros_idx, zeros_arr, st.zeros_arr, 0)
    /\ i' = 1
    /\ pc' = "loop"
    /\ UNCHANGED <<df, times, volts, result_df, error>>
    /\ UNCHANGED <<rerun, nameVars, batchVars>>

\* for i in range(1, count - 1)
MainLoop ==
    /\ pc = "loop"
    /\ i < count - 1
    /\ LET st == LoopBody(ScanState, times, volts, i)
       IN  /\ peaks_arr' = st.peaks_arr
           /\ zeros_arr' = st.zeros_arr
           /\ looking_for_peak' = st.looking_for_peak
           /\ peaks_idx' = Recorded(peaks_idx, peaks_arr, st.peaks_arr, i)
           /\ zeros_idx' = Recorded(zeros_idx, zeros_arr, st.zeros_arr, i)
    /\ i' = i + 1
    /\ UNCHANGED <<df, pc, times, volts, result_df, error>>
    /\ UNCHANGED <<rerun, nameVars, batchVars>>

RightEdge ==
    /\ pc = "loop"
    /\ i >= count - 1
    /\ LET st == RightEdgeCheck(ScanState, times, volts)
       IN  /\ peaks_arr' = st.peaks_arr
           /\ zeros_arr' = st.zeros_arr
           /\ looking_for_peak' = st.looking_for_peak
           /\ peaks_idx' = Recorded(peaks_idx, peaks_arr, st.peaks_arr, count - 1)
           /\ zeros_idx' = Recorded(zeros_idx, zeros_arr, st.zeros_arr, count - 1)
    /\ pc' = "calc"
    /\ UNCHANGED <<df, times, volts, i, result_df, error>>
    /\ UNCHANGED <<rerun, nameVars, batchVars>>

Calculate ==
    /\ pc = "calc"
    /\ result_df' = <<DataFrame(CyclesData(peaks_arr, zeros_arr), AppColumns)>>
    /\ pc' = "done"
    /\ UNCHANGED <<df, times, volts, i, peaks_arr, zeros_arr, looking_for_peak, error>>
    /\ UNCHANGED <<peaks_idx, zeros_idx>>
    /\ UNCHANGED <<rerun, nameVars, batchVars>>

Next == ResolveFail \/ SortData \/ LeftEdge \/ MainLoop \/ RightEdge \/ Calculate

Spec == Init /\ [][Next]_vars

(* -------------- a second call on a shuffled copy of the table ---------- *)

\* longest series of the shuffle specification
MaxPermLen == 3

Permute(rows, p) == [k \in 1..Len(rows) |-> rows[p[k]]]

ShuffleInit == DetInit(Tables(MaxPermLen)) /\ NameIdle /\ BatchIdle

\* process_discharge_data called again, on the same rows in another order
ProcessShuffled ==
    /\ pc = "done"
    /\ rerun = <<>>
    /\ \E p \in Permutations(1..Len(df.rows)) :
          LET shuffled == [df EXCEPT !.rows = Permute(df.rows, p)]
          IN  \E out \in ProcessOutcomes(shuffled) :
                 rerun' = <<[input |-> shuffled.rows, result_df |-> out.result_df,
                             error |-> out.error]>>
    /\ UNCHANGED <<detVars, nameVars, batchVars>>

ShuffleNext == Next \/ ProcessShuffled

ShuffleSpec == ShuffleInit /\ [][ShuffleNext]_vars

(* ------------------ one call of get_start_cycle_from_name -------------- *)

\* longest file name of the name specification, and its characters
MaxNameLen == 4
NameChars == {"a", "-", "0", "1", "9"}

NameInit ==
    /\ filename \in SeqsUpTo(NameChars, MaxNameLen)
    /\ start_cycle = <<>>
    /\ DetIdle
    /\ BatchIdle

GetStartCycle ==
    /\ start_cycle = <<>>
    /\ start_cycle' = <<get_start_cycle_from_name(filename)>>
    /\ UNCHANGED <<filename, detVars, rerun, batchVars>>

NameNext == GetStartCycle

NameSpec == NameInit /\ [][NameNext]_vars

(* ----------------------- one batch run of src/test.py ------------------ *)

\* most files of an upload
MaxFiles == 3

\* a series of n full cycles: 0.9 at even minutes, 0.0 at odd minutes
Alternating(n) ==
    [k \in 1..(2 * n) |-> [t |-> 2 * (k - 1), v |-> IF k % 2 = 1 THEN 90 ELSE 0]]

FlatSeries == <<[t |-> 0, v |-> 50], [t |-> 2, v |-> 50]>>

SeriesTable(rows) == [columns |-> <<Col_Time, Col_Voltage>>, rows |-> rows]

\* what an uploaded file holds: a table, or bytes that do not parse
FileContents ==
    {[readable |-> FALSE, table |-> [columns |-> <<>>, rows |-> <<>>]],
     [readable |-> TRUE, table |-> [columns |-> <<Col_Time, Col_Current>>, rows |-> <<>>]],
     [readable |-> TRUE, table |-> SeriesTable(FlatSeries)],
     [readable |-> TRUE, table |-> SeriesTable(Alternating(2))],
     [readable |-> TRUE, table |-> SeriesTable(Alternating(3))],
     [readable |-> TRUE, table |-> SeriesTable(Alternating(5))]}

FileNames == {<<"a">>, <<"d", "0">>, <<"d", "4">>, <<"d", "9">>}

UploadedFile ==
    {[name |-> n, readable |-> c.readable, table |-> c.table] :
        n \in FileNames, c \in FileContents}

BatchInit ==
    /\ uploaded_files \in (SeqsUpTo(UploadedFile, MaxFiles) \ {<<>>})
    /\ sorted_files = <<>>
    /\ file_idx = 0
    /\ temp_results = <<>>
    /\ temp_stats = <<>>
    /\ messages = <<>>
    /\ processed_results = <<>>
    /\ summary_stats = <<>>
    /\ dashboard = <<>>
    /\ bpc = "uploaded"
    /\ DetIdle
    /\ NameIdle

\* if run_btn: the lists are emptied and the files sorted by their start number
RunBatch ==
    /\ bpc = "uploaded"
    /\ temp_results' = <<>>
    /\ temp_stats' = <<>>
    /\ sorted_files' = SortedFiles(uploaded_files)
    /\ file_idx' = 0
    /\ bpc' = "loop"
    /\ UNCHANGED <<uploaded_files, messages, processed_results, summary_stats, dashboard>>
    /\ UNCHANGED <<detVars, rerun, nameVars>>

\* for i, uploaded_file in enumerate(sorted_files): one whole iteration
ProcessFile ==
    /\ bpc = "loop"
    /\ file_idx < Len(sorted_files)
    /\ LET file == At(sorted_files, file_idx)
           start_from_name == get_start_cycle_from_name(file.name)
       IN  \E out \in ProcessNamedOutcomes(file.table, file.name, <<start_from_name>>) :
              LET acc == Iteration(file, out,
                                   [temp_results |-> temp_results, temp_stats |-> temp_stats,
                                    messages |-> messages])
              IN  /\ temp_results' = acc.temp_results
                  /\ temp_stats' = acc.temp_stats
                  /\ messages' = acc.messages
    /\ file_idx' = file_idx + 1
    /\ UNCHANGED <<uploaded_files, sorted_files, processed_results, summary_stats,
                   dashboard, bpc>>
    /\ UNCHANGED <<detVars, rerun, nameVars>>

\* after the loop the lists go to the session state
StoreResults ==
    /\ bpc = "loop"
    /\ file_idx >= Len(sorted_files)
    /\ processed_results' = temp_results
    /\ summary_stats' = temp_stats
    /\ bpc' = "stored"
    /\ UNCHANGED <<uploaded_files, sorted_files, file_idx, temp_results, temp_stats,
                   messages, dashboard>>
    /\ UNCHANGED <<detVars, rerun, nameVars>>

\* RESULTS DASHBOARD: drawn only when processed_results is a non-empty list
Dashboard ==
    /\ bpc = "stored"
    /\ dashboard' = IF processed_results # <<>>
                    THEN <<DashboardOf(processed_results, summary_stats)>>
                    ELSE <<>>
    /\ bpc' = "end"
    /\ UNCHANGED <<uploaded_files, sorted_files, file_idx, temp_results, temp_stats,
                   messages, processed_results, summary_stats>>
    /\ UNCHANGED <<detVars, rerun, nameVars>>

BatchNext == RunBatch \/ ProcessFile \/ StoreResults \/ Dashboard

BatchSpec == BatchInit /\ [][BatchNext]_vars

(* ------------------------- detector properties ------------------------ *)

\* a series with three peaks and two zero-crossings: the last peak stays open
ThreePeaksTwoZeros ==
    <<[t |-> 0, v |-> 90], [t |-> 2, v |-> 0], [t |-> 4, v |-> 90],
      [t |-> 6, v |-> 0], [t |-> 8, v |-> 90], [t |-> 10, v |-> 50]>>

\* C1: during the scan (after the left-edge check and after each interior
\* index) the recorded zero-crossings never outnumber the recorded peaks, and
\* after the right-edge check they outnumber them by at most one.
Alternation_C1 ==
    /\ pc = "loop" => Len(zeros_arr) <= Len(peaks_arr)
    /\ pc \in {"calc", "done"} => Len(zeros_arr) <= Len(peaks_arr) + 1

\* two full cycles, the second closed by the right-edge check
Alternation_C1_Witness ==
    /\ pc = "calc"
    /\ Len(peaks_arr) = 2
    /\ Len(zeros_arr) = 2
    /\ zeros_arr[2] = At(times, count - 1)

\* C2: the call returns min(#peaks, #zero-crossings) records, the k-th built
\* from the k-th peak and the k-th zero-crossing; an open trailing peak is
\* dropped and no error is returned (3 peaks and 2 zero-crossings: 2 records).
Pairing_C2 ==
    /\ (pc = "done" /\ ~ColumnsUnresolved(df.columns)) =>
          /\ error = <<>>
          /\ result_df # <<>>
          /\ LET rows == result_df[1].rows
             IN  /\ Len(rows) = Min2(Len(peaks_arr), Len(zeros_arr))
                 /\ Len(peaks_arr) > Len(zeros_arr) => Len(rows) = Len(zeros_arr)
                 /\ \A k \in 1..Len(rows) :
                       rows[k].duration_seconds * TicksPerMinute
                           = (zeros_arr[k] - peaks_arr[k]) * SecondsPerMinute
    /\ \A out \in ProcessOutcomes([columns |-> <<Col_Time, Col_Voltage>>,
                                   rows |-> ThreePeaksTwoZeros]) :
          /\ out.error = <<>>
          /\ Len(out.result_df[1].rows) = 2

\* two peaks, one zero-crossing, one record
Pairing_C2_Witness ==
    /\ pc = "done"
    /\ Len(peaks_arr) = 2
    /\ Len(zeros_arr) = 1
    /\ result_df # <<>>
    /\ Len(result_df[1].rows) = 1

\* samples with the same timestamp have the same voltage
TiesAgree(rows) ==
    \A a, b \in 1..Len(rows) : rows[a].t = rows[b].t => rows[a].v = rows[b].v

\* C3 as stated: the call on any permutation of the rows returns the records
\* of the call on the rows themselves, equal timestamps included.
Resort_C3_Original ==
    rerun # <<>> => (rerun[1].result_df = result_df /\ rerun[1].error = error)

\* C3 amended: the two calls return the same records whenever samples that
\* share a timestamp also share their voltage.
Resort_C3 ==
    (rerun # <<>> /\ TiesAgree(df.rows)) =>
        (rerun[1].result_df = result_df /\ rerun[1].error = error)

\* the second call got the rows out of time order and a cycle is found
Resort_C3_Witness ==
    /\ rerun # <<>>
    /\ TiesAgree(df.rows)
    /\ TimesOf(rerun[1].input) # times
    /\ result_df # <<>>
    /\ Len(result_df[1].rows) = 1

\* C7: a first sample above 0.5 and above the second is recorded as the first
\* peak and the scan starts seeking a zero; a scan that ends seeking a zero
\* with a last voltage of at most 0.05 records the last timestamp as the
\* zero-crossing that closes the open cycle.
EdgeHandling_C7 ==
    /\ (pc \in {"loop", "calc", "done"}
        /\ count >= 2 /\ At(volts, 0) > 50 /\ At(volts, 0) > At(volts, 1)) =>
          /\ Len(peaks_arr) >= 1
          /\ peaks_arr[1] = At(times, 0)
          /\ (pc = "loop" /\ i = 1) => (peaks_arr = <<At(times, 0)>> /\ ~looking_for_peak)
    /\ (pc = "calc" /\ ~looking_for_peak /\ At(volts, count - 1) <= 5) =>
          /\ Len(zeros_arr) = Len(peaks_arr)
          /\ zeros_arr[Len(zeros_arr)] = At(times, count - 1)

\* 0.9 then 0.51 ... ending at 0.0: both edges act
EdgeHandling_C7_Witness ==
    /\ pc = "calc"
    /\ count = 3
    /\ volts = <<90, 51, 0>>
    /\ peaks_arr = <<At(times, 0)>>
    /\ zeros_arr = <<At(times, 2)>>

\* C8: a sample at 0.5 or below is never recorded as a peak, at the left edge
\* or in the loop; a sample at exactly 0.05 visited while seeking a zero (in
\* the loop or at the right edge) is recorded as a zero-crossing.
Thresholds_C8 ==
    [][ /\ (pc = "left" /\ count >= 1 /\ At(volts, 0) <= 50) => peaks_arr' = peaks_arr
        /\ (pc = "loop" /\ i < count - 1 /\ At(volts, i) <= 50) => peaks_arr' = peaks_arr
        /\ (pc = "loop" /\ i >= count - 1) => peaks_arr' = peaks_arr
        /\ (pc = "loop" /\ i < count - 1 /\ ~looking_for_peak /\ At(volts, i) = 5) =>
              (zeros_arr' = Append(zeros_arr, At(times, i)) /\ looking_for_peak')
        /\ (pc = "loop" /\ i >= count - 1 /\ ~looking_for_peak
            /\ At(volts, count - 1) = 5) =>
              zeros_arr' = Append(zeros_arr, At(times, count - 1))
      ]_vars

\* 0.05 closes the cycle, then 0.5 is a strict local maximum and no peak
Thresholds_C8_Witness ==
    /\ pc = "calc"
    /\ volts = <<90, 5, 50, 5>>
    /\ Len(peaks_arr) = 1
    /\ Len(zeros_arr) = 1

(* --------------------------- name properties --------------------------- *)

RECURSIVE Pow10(_)
Pow10(n) == IF n = 0 THEN 1 ELSE 10 * Pow10(n - 1)

\* the decimal value of name[a..b], digit by position
RECURSIVE PositionalValue(_, _, _)
PositionalValue(name, a, b) ==
    IF a > b THEN 0
    ELSE DigitValue(name[a]) * Pow10(b - a) + PositionalValue(name, a + 1, b)

Name_Data_1001_2000_csv ==
    <<"D", "a", "t", "a", "_", "1", "0", "0", "1", "-", "2", "0", "0", "0",
      ".", "c", "s", "v">>
Name_trial_csv == <<"t", "r", "i", "a", "l", ".", "c", "s", "v">>

\* C5: for every name the call returns a value: the integer written by the
\* leftmost maximal run of digits, or 1 when the name has no digit;
\* "Data_1001-2000.csv" gives 1001 and "trial.csv" gives 1.
StartFromName_C5 ==
    /\ start_cycle = <<>> => ENABLED GetStartCycle
    /\ start_cycle # <<>> =>
          LET at == {k \in 1..Len(filename) : IsDigit(filename[k])}
          IN  IF at = {} THEN start_cycle[1] = 1
              ELSE LET a == CHOOSE k \in at : \A j \in at : k <= j
                       b == CHOOSE k \in a..Len(filename) :
                               /\ \A j \in a..k : j \in at
                               /\ (k + 1) \notin at
                   IN  start_cycle[1] = PositionalValue(filename, a, b)
    /\ get_start_cycle_from_name(Name_Data_1001_2000_csv) = 1001
    /\ get_start_cycle_from_name(Name_trial_csv) = 1

\* a name with two numbers, the first of two digits
StartFromName_C5_Witness ==
    /\ filename = <<"1", "9", "-", "0">>
    /\ start_cycle = <<19>>

(* --------------------------- batch properties -------------------------- *)

BatchDone == bpc \in {"stored", "end"}

\* cycles stored for the files before the j-th stored result: the running total
RECURSIVE RunningTotal(_, _)
RunningTotal(results, j) ==
    IF j <= 1 THEN 0
    ELSE RunningTotal(results, j - 1) + Len(results[j - 1].df.rows)

AllNumbers(results) == SortNumbers(CycleNumbers(Concat(results).rows))

\* C4 as stated: the file stored j-th, with n cycles, is numbered T+1..T+n, T
\* being the running total of the cycles of the files before it, so the batch
\* is numbered 1..total.
Numbering_C4_Original ==
    BatchDone =>
        /\ \A j \in 1..Len(processed_results) :
              CycleNumbers(processed_results[j].df.rows)
                  = [k \in 1..Len(processed_results[j].df.rows) |->
                        RunningTotal(processed_results, j) + k]
        /\ AllNumbers(processed_results)
              = [k \in 1..Len(Concat(processed_results).rows) |-> k]

\* C4 amended: no running total is kept; a file with n cycles whose name gives
\* the start S is numbered S..S+n-1, and the batch is numbered 1..total without
\* gap or repeat when every file's S is one more than the running total T of
\* the files before it (cycle counts [3, 5, 2] with starts 1, 4, 9 give 1-3,
\* 4-8, 9-10).
Numbering_C4 ==
    BatchDone =>
        /\ \A j \in 1..Len(processed_results) :
              CycleNumbers(processed_results[j].df.rows)
                  = [k \in 1..Len(processed_results[j].df.rows) |->
                        get_start_cycle_from_name(processed_results[j].filename) + k - 1]
        /\ (\A j \in 1..Len(processed_results) :
               get_start_cycle_from_name(processed_results[j].filename)
                   = RunningTotal(processed_results, j) + 1)
           => AllNumbers(processed_results)
                  = [k \in 1..Len(Concat(processed_results).rows) |-> k]

\* files with 3, 5 and 2 cycles named for the starts 1, 4 and 9
Numbering_C4_Witness ==
    /\ bpc = "end"
    /\ Len(summary_stats) = 3
    /\ [k \in 1..3 |-> summary_stats[k].cycles_found] = <<3, 5, 2>>
    /\ [k \in 1..3 |-> summary_stats[k].first_cycle] = <<1, 4, 9>>
    /\ [k \in 1..3 |-> summary_stats[k].last_cycle] = <<3, 8, 10>>
    /\ dashboard # <<>>
    /\ dashboard[1].master_numbers = [k \in 1..10 |-> k]

\* the file is read, its columns resolve and no cycle is detected in it
Degenerate(file) ==
    /\ file.readable
    /\ ~ColumnsUnresolved(file.table.columns)
    /\ \A out \in ProcessNamedOutcomes(file.table, file.name, <<1>>) :
          out.error = <<>> /\ out.result_df[1].rows = <<>>

\* C6: a file without cycles is no error: the run and the dashboard end without
\* an exception and the file's summary shows a count of zero and no mean.
Degenerate_C6 ==
    bpc = "end" =>
        \A j \in 1..Len(sorted_files) :
            Degenerate(sorted_files[j]) =>
                /\ ~(dashboard # <<>> /\ dashboard[1].status = "exception")
                /\ ~\E m \in 1..Len(messages) :
                       messages[m] = Message("failed", sorted_files[j].name)
                /\ \E k \in 1..Len(summary_stats) :
                       /\ summary_stats[k].filename = sorted_files[j].name
                       /\ summary_stats[k].cycles_found = 0
                       /\ summary_stats[k].avg_time.n = 0

Failing(file) == ~file.readable \/ ColumnsUnresolved(file.table.columns)
NotFailing(file) == ~Failing(file)
IsAnalyzing(msg) == msg.kind = "analyzing"

\* C9: whatever files fail (unreadable, or columns unresolved), every file of
\* the batch is visited in order, a failing file adds no records and every
\* other file's records are in the stored results.
BatchContinues_C9 ==
    BatchDone =>
        LET good == SelectSeq(sorted_files, NotFailing)
            visited == SelectSeq(messages, IsAnalyzing)
        IN  /\ file_idx = Len(sorted_files)
            /\ visited = [k \in 1..Len(sorted_files) |->
                             Message("analyzing", sorted_files[k].name)]
            /\ Len(processed_results) = Len(good)
            /\ \A j \in 1..Len(good) :
                  /\ processed_results[j].filename = good[j].name
                  /\ \E out \in ProcessNamedOutcomes(good[j].table, good[j].name,
                                   <<get_start_cycle_from_name(good[j].name)>>) :
                        processed_results[j].df = out.result_df[1]

\* an unreadable file and a file without columns come before a file with cycles
BatchContinues_C9_Witness ==
    /\ bpc = "stored"
    /\ Len(sorted_files) = 3
    /\ ~sorted_files[1].readable
    /\ sorted_files[2].readable /\ ColumnsUnresolved(sorted_files[2].table.columns)
    /\ Len(processed_results) = 1
    /\ processed_results[1].filename = sorted_files[3].name
    /\ Len(processed_results[1].df.rows) = 2

\* C10: every cycle record of every file has a cycle number of at least 1.
PositiveNumbers_C10 ==
    \A j \in 1..Len(temp_results) :
        \A k \in 1..Len(temp_results[j].df.rows) :
            temp_results[j].df.rows[k].cycle_number >= 1

(* ------------------- numbering and conversion properties --------------- *)

\* the number a name starts with: its leftmost maximal digit run, 1 without digits
FirstRunValue(name) ==
    LET at == {k \in 1..Len(name) : IsDigit(name[k])}
    IN  IF at = {} THEN 1
        ELSE LET a == CHOOSE k \in at : \A j \in at : k <= j
                 b == CHOOSE k \in a..Len(name) :
                         /\ \A j \in a..k : j \in at
                         /\ (k + 1) \notin at
             IN  PositionalValue(name, a, b)

\* C11: the k-th cycle (0-based) of a file is numbered S + k, S being the start
\* in the file's own name (1 without digits, and 1 in the single-file call of
\* src/app.py); the numbers of a file are the same wherever it stands in the
\* batch and whatever the other files are.
PerFile_C11 ==
    /\ \A j \in 1..Len(temp_results) :
          LET rows == temp_results[j].df.rows
          IN  \A k \in 1..Len(rows) :
                 rows[k].cycle_number = FirstRunValue(temp_results[j].filename) + (k - 1)
    /\ \A j1, j2 \in 1..Len(temp_results) :
          temp_results[j1].filename = temp_results[j2].filename =>
              \A k \in 1..Min2(Len(temp_results[j1].df.rows), Len(temp_results[j2].df.rows)) :
                  temp_results[j1].df.rows[k].cycle_number
                      = temp_results[j2].df.rows[k].cycle_number
    /\ bpc = "uploaded" =>
          \A f \in 1..Len(uploaded_files) :
              \A out \in ProcessOutcomes(uploaded_files[f].table) :
                  out.result_df # <<>> =>
                      CycleNumbers(out.result_df[1].rows)
                          = [k \in 1..Len(out.result_df[1].rows) |-> k]

\* a file named for start 4 stored after a file without digits: 1..5 and 4..6 overlap
PerFile_C11_Witness ==
    /\ Len(temp_results) = 2
    /\ temp_results[1].filename = <<"a">>
    /\ CycleNumbers(temp_results[1].df.rows) = <<1, 2, 3, 4, 5>>
    /\ temp_results[2].filename = <<"d", "4">>
    /\ CycleNumbers(temp_results[2].df.rows) = <<4, 5, 6>>

\* C12: every record's duration in seconds is (t_zero - t_peak) * 60 of its
\* peak and zero-crossing, unclamped and unrounded; a peak at 1.0 min and a
\* zero-crossing at 1.5 min give 30.
UnitConversion_C12 ==
    (pc = "done" /\ result_df # <<>>) =>
        \A k \in 1..Len(result_df[1].rows) :
            /\ TicksPerMinute * result_df[1].rows[k].duration_seconds
                  = (zeros_arr[k] - peaks_arr[k]) * 60
            /\ (peaks_arr[k] = 2 /\ zeros_arr[k] = 3) =>
                  result_df[1].rows[k].duration_seconds = 30

\* the peak at 1.0 min, the zero-crossing at 1.5 min
UnitConversion_C12_Witness ==
    /\ pc = "done"
    /\ peaks_arr = <<2>>
    /\ zeros_arr = <<3>>
    /\ result_df # <<>>
    /\ result_df[1].rows = <<[cycle_number |-> 1, duration_seconds |-> 30]>>

\* C13: when the columns of a file do not resolve, the scan is not run, no
\* records are returned, and the reported error names the file and lists all
\* the columns that were found.
ColumnError_C13 ==
    \A j \in 1..Len(sorted_files) :
        (j <= file_idx /\ sorted_files[j].readable
         /\ ColumnsUnresolved(sorted_files[j].table.columns)) =>
            /\ Len(temp_results)
                  = Len(SelectSeq(SubSeq(sorted_files, 1, file_idx), NotFailing))
            /\ \E m \in 1..Len(messages) :
                  /\ messages[m].kind = "columns"
                  /\ messages[m].file = sorted_files[j].name
                  /\ "found" \in DOMAIN messages[m]
                  /\ messages[m].found = sorted_files[j].table.columns

(* ----------------------- interleaving properties ----------------------- *)

\* C14: recorded peaks and zero-crossings strictly interleave by sample index,
\* and the zero-crossing paired with the k-th peak is the first sample after
\* that peak whose voltage is at most 0.05; a peak left open has no such sample
\* after it.
Interleaving_C14 ==
    pc \in {"loop", "calc", "done"} =>
        /\ Len(peaks_idx) = Len(peaks_arr)
        /\ Len(zeros_idx) = Len(zeros_arr)
        /\ \A k \in 1..Len(peaks_idx) : peaks_arr[k] = At(times, peaks_idx[k])
        /\ \A k \in 1..Len(zeros_idx) :
              /\ zeros_arr[k] = At(times, zeros_idx[k])
              /\ k <= Len(peaks_idx)
              /\ peaks_idx[k] < zeros_idx[k]
              /\ (k + 1 <= Len(peaks_idx)) => zeros_idx[k] < peaks_idx[k + 1]
              /\ At(volts, zeros_idx[k]) <= 5
              /\ \A m \in (peaks_idx[k] + 1)..(zeros_idx[k] - 1) : At(volts, m) > 5
        /\ (pc \in {"calc", "done"} /\ Len(peaks_idx) > Len(zeros_idx)) =>
              \A m \in (peaks_idx[Len(peaks_idx)] + 1)..(count - 1) : At(volts, m) > 5
        /\ (pc = "done" /\ result_df # <<>>) =>
              \A k \in 1..Len(result_df[1].rows) :
                  TicksPerMinute * result_df[1].rows[k].duration_seconds
                      = (At(times, zeros_idx[k]) - At(times, peaks_idx[k])) * 60

\* a peak whose zero-crossing comes two samples later, after a sample above 0.05
Interleaving_C14_Witness ==
    /\ pc = "done"
    /\ count = 4
    /\ peaks_idx = <<1>>
    /\ zeros_idx = <<3>>
    /\ At(volts, 2) = 50

\* C15: from before the left-edge check to just before the right-edge check
\* looking_for_peak is true exactly when #peaks = #zero-crossings and false
\* exactly when #peaks = #zero-crossings + 1; after the right-edge check the
\* difference is still 0 or 1, so as many cycles are returned as zero-crossings
\* were recorded.
ModeCount_C15 ==
    /\ pc \in {"left", "loop"} =>
          /\ looking_for_peak <=> Len(peaks_arr) = Len(zeros_arr)
          /\ ~looking_for_peak <=> Len(peaks_arr) = Len(zeros_arr) + 1
    /\ pc \in {"calc", "done"} => (Len(peaks_arr) - Len(zeros_arr)) \in {0, 1}
    /\ (pc = "done" /\ result_df # <<>>) => Len(result_df[1].rows) = Len(zeros_arr)

\* just before the right-edge check, a second peak open
ModeCount_C15_Witness ==
    /\ pc = "loop"
    /\ i >= count - 1
    /\ ~looking_for_peak
    /\ Len(peaks_arr) = 2
    /\ Len(zeros_arr) = 1

\* C16: whatever the order of the input rows, every returned cycle has
\* t_zero >= t_peak, its zero-crossing lying at a later index of the sorted
\* series than its peak, and so a duration of at least 0.
NonNegative_C16 ==
    /\ (pc = "done" /\ result_df # <<>>) =>
          \A k \in 1..Len(result_df[1].rows) :
              /\ zeros_idx[k] > peaks_idx[k]
              /\ zeros_arr[k] >= peaks_arr[k]
              /\ result_df[1].rows[k].duration_seconds >= 0
    /\ (rerun # <<>> /\ rerun[1].result_df # <<>>) =>
          \A k \in 1..Len(rerun[1].result_df[1].rows) :
              rerun[1].result_df[1].rows[k].duration_seconds >= 0

\* the second call got the rows latest first and returns a cycle of 90 s
NonNegative_C16_Witness ==
    /\ rerun # <<>>
    /\ Len(rerun[1].input) = 3
    /\ TimesOf(rerun[1].input) = <<3, 2, 0>>
    /\ rerun[1].result_df # <<>>
    /\ Len(rerun[1].result_df[1].rows) = 1
    /\ rerun[1].result_df[1].rows[1].duration_seconds = 90

\* C17: after a batch run the stored results and the stored summary hold the
\* same files in the same order, so the dashboard's file count and cycle total
\* describe the files of the master dataset.
Consistency_C17 ==
    BatchDone =>
        /\ [k \in 1..Len(processed_results) |-> processed_results[k].filename]
              = [k \in 1..Len(summary_stats) |-> summary_stats[k].filename]
        /\ (dashboard # <<>>) =>
              /\ dashboard[1].total_files = Len(processed_results)
              /\ dashboard[1].total_cycles = Len(Concat(processed_results).rows)

====
